---- MODULE Spec2Model ----
(***************************************************************************)
(* Hidden service descriptor cache of src/or/rendcache.c.                  *)
(*                                                                         *)
(* State: the client index rend_cache (service id -> entry), the directory *)
(* index rend_cache_v2_dir (descriptor id -> entry), the allocation        *)
(* counter rend_cache_total_allocation with its two one-shot warning       *)
(* flags, the two clocks the code reads (time(NULL) and approx_time()),    *)
(* and the record of the call that has just run.                           *)
(*                                                                         *)
(* Strings are sequences of one-character strings.  A descriptor buffer is *)
(* a sequence of descriptor texts, cut where the literal keyword           *)
(* "rendezvous-service-descriptor " starts a line; the text of one         *)
(* descriptor is a record of what the parser reads out of it.              *)
(***************************************************************************)
EXTENDS Integers, Sequences, FiniteSets, TLC

VARIABLES
  rend_cache,                  \* strmap_t *rend_cache
  rend_cache_v2_dir,           \* digestmap_t *rend_cache_v2_dir
  rend_cache_total_allocation, \* size_t rend_cache_total_allocation
  have_underflowed,            \* static int in rend_cache_decrement_allocation
  have_overflowed,             \* static int in rend_cache_increment_allocation
  now,                         \* what time(NULL) returns
  approx,                      \* what approx_time() returns (the cached time)
  call                         \* the call that has just run: inputs and results

vars == <<rend_cache, rend_cache_v2_dir, rend_cache_total_allocation,
          have_underflowed, have_overflowed, now, approx, call>>

----------------------------------------------------------------------------
(* Program constants *)

\* size_t is modelled 31 bits wide, the widest the checker's integers allow.
SIZE_MAX == 2147483647
\* or.h gives 2 days and 1 day; the model keeps the ratio at a smaller scale
\* so that the sweeps of rend_cache_clean_v2_descs_as_dir stay short.
REND_CACHE_MAX_AGE == 7200
REND_CACHE_MAX_SKEW == 3600
LAST_SERVED_CUTOFF_STEP == 1800
MAX_INTRO_POINTS == 10
REND_SERVICE_ID_LEN_BASE32 == 16
REND_DESC_ID_V2_LEN_BASE32 == 32
\* sizeof(rend_cache_entry_t) and sizeof(rend_service_descriptor_t)
SizeofEntry == 32
SizeofParsed == 56

(* Bounds of the model *)

\* time(NULL) when the cache is initialised
StartTime == 100000

\* the accountant on its own is driven over the totals within this distance
\* of 0 and of SIZE_MAX
MaxDistance == 3

\* how many descriptors one buffer holds at most
MaxBatch == 2

NULL == <<>>

----------------------------------------------------------------------------
(* Characters and strings *)

LowerChars == <<"a","b","c","d","e","f","g","h","i","j","k","l","m",
                "n","o","p","q","r","s","t","u","v","w","x","y","z">>
UpperChars == <<"A","B","C","D","E","F","G","H","I","J","K","L","M",
                "N","O","P","Q","R","S","T","U","V","W","X","Y","Z">>
BASE32_CHARS == LowerChars \o <<"2","3","4","5","6","7">>

IndexIn(seq, c) == CHOOSE i \in 1..Len(seq) : seq[i] = c
Range(seq) == {seq[i] : i \in 1..Len(seq)}

\* the lower-case letter of every upper-case letter
LowerOf == [c \in Range(UpperChars) |-> LowerChars[IndexIn(UpperChars, c)]]
\* the 5-bit value of every character of the base32 alphabet
Base32Value == [c \in Range(BASE32_CHARS) |-> IndexIn(BASE32_CHARS, c) - 1]

TOR_TOLOWER(c) == IF c \in DOMAIN LowerOf THEN LowerOf[c] ELSE c

tor_strlower(s) == [i \in 1..Len(s) |-> TOR_TOLOWER(s[i])]

Repeat(c, n) == [i \in 1..n |-> c]

\* rend_valid_service_id: exact length, alphabet [a-z2-7] in either case
rend_valid_service_id(query) ==
  /\ Len(query) = REND_SERVICE_ID_LEN_BASE32
  /\ \A i \in 1..Len(query) : TOR_TOLOWER(query[i]) \in DOMAIN Base32Value

\* base32_decode of a descriptor id: the 5-bit value of every character, or
\* an error when the length is wrong or a character is outside the alphabet.
\* A digest is written as its REND_DESC_ID_V2_LEN_BASE32 5-bit groups.
base32_decode(src) ==
  IF /\ Len(src) = REND_DESC_ID_V2_LEN_BASE32
     /\ \A i \in 1..Len(src) : src[i] \in DOMAIN Base32Value
  THEN [ok |-> TRUE, digest |-> [i \in 1..Len(src) |-> Base32Value[src[i]]]]
  ELSE [ok |-> FALSE, digest |-> <<>>]

----------------------------------------------------------------------------
(* Services, descriptors and buffers *)

PublicKeys == {"pk1", "pk2"}

\* rend_get_service_id: the base32 digest of the public key, in lower case
rend_get_service_id(pk) ==
  IF pk = "pk1" THEN Repeat("a", REND_SERVICE_ID_LEN_BASE32)
  ELSE Repeat("b", REND_SERVICE_ID_LEN_BASE32)

\* the descriptor id a service publishes under, as the parser computes it
DescIdOf(pk) ==
  IF pk = "pk1" THEN base32_decode(Repeat("a", REND_DESC_ID_V2_LEN_BASE32)).digest
  ELSE base32_decode(Repeat("b", REND_DESC_ID_V2_LEN_BASE32)).digest

DescIds == {DescIdOf(pk) : pk \in PublicKeys}

\* The text of one well-formed descriptor.  Body 1 carries no introduction
\* points; body 2 carries an introduction-point blob.
Descriptor(pk, timestamp, body) ==
  [wellformed |-> TRUE, pk |-> pk, desc_id |-> DescIdOf(pk),
   timestamp |-> timestamp, body |-> body]

\* What the services publish.  "pk1" signs two different descriptors at
\* StartTime and a later one, one past the upper freshness bound of
\* StartTime; "pk2" signs one, on the lower freshness bound of StartTime.
Descriptors ==
  { Descriptor("pk1", StartTime, 1),
    Descriptor("pk1", StartTime, 2),
    Descriptor("pk1", StartTime + REND_CACHE_MAX_SKEW + 1, 1),
    Descriptor("pk2", StartTime - REND_CACHE_MAX_AGE - REND_CACHE_MAX_SKEW, 1) }

\* A text the parser rejects
Garbage == [wellformed |-> FALSE, pk |-> "none", desc_id |-> <<>>,
            timestamp |-> 0, body |-> 0]

Texts == Descriptors \cup {Garbage}

SeqsUpTo(S, n) == UNION { [1..k -> S] : k \in 0..n }

Buffers == SeqsUpTo(Texts, MaxBatch)

\* strlen of the first descriptor of a buffer, as the parser reports it
EncodedSize(d) == 400 + 100 * d.body
IntroSize(d) == IF d.body = 1 THEN 0 ELSE 100 * (d.body - 1)

\* rend_parse_v2_service_descriptor on the buffer at the cursor: the parsed
\* descriptor (intro_nodes not yet allocated), its id, the size of its
\* introduction-point blob, its encoded size and the cursor behind it.
rend_parse_v2_service_descriptor(current_desc) ==
  IF current_desc = <<>> \/ ~Head(current_desc).wellformed
  THEN [ok |-> FALSE]
  ELSE LET d == Head(current_desc) IN
       [ok |-> TRUE,
        parsed |-> [pk |-> d.pk, timestamp |-> d.timestamp,
                    intro_nodes |-> [alloc |-> FALSE, n |-> 0]],
        desc_id |-> d.desc_id,
        intro_size |-> IntroSize(d),
        encoded_size |-> EncodedSize(d),
        next_desc |-> Tail(current_desc)]

\* the first encoded_size bytes at the cursor
tor_strndup(current_desc, encoded_size) == <<Head(current_desc)>>

\* strcmp(a, b) == 0
strcmp_eq(a, b) == a = b

----------------------------------------------------------------------------
(* Maps *)

EmptyMap == [k \in {} |-> NULL]
MapSet(m, k, v) == [x \in DOMAIN m \cup {k} |-> IF x = k THEN v ELSE m[x]]
MapRemove(m, ks) == [x \in DOMAIN m \ ks |-> m[x]]

\* strmap_get_lc / strmap_set_lc: the key is lower-cased first
strmap_has_lc(m, key) == tor_strlower(key) \in DOMAIN m
strmap_get_lc(m, key) == m[tor_strlower(key)]
strmap_set_lc(m, key, v) == MapSet(m, tor_strlower(key), v)

----------------------------------------------------------------------------
(* Allocation accounting *)

Accountant == [total |-> rend_cache_total_allocation,
               unf |-> have_underflowed, ovf |-> have_overflowed]

\* rend_cache_entry_allocation
rend_cache_entry_allocation(e) == SizeofEntry + e.len + SizeofParsed

\* rend_cache_decrement_allocation
rend_cache_decrement_allocation(a, n) ==
  IF a.total >= n
  THEN [a EXCEPT !.total = a.total - n]
  ELSE [a EXCEPT !.total = 0, !.unf = TRUE]

\* rend_cache_get_total_allocation
rend_cache_get_total_allocation(a) == a.total

\* an increment that adds without the test against SIZE_MAX and wraps
rend_cache_increment_allocation_Wraps(a, n) ==
  IF a.total <= SIZE_MAX - n
  THEN [a EXCEPT !.total = a.total + n]
  ELSE [a EXCEPT !.total = n - (SIZE_MAX - a.total) - 1]

\* rend_cache_increment_allocation
rend_cache_increment_allocation(a, n) ==
  IF a.total <= SIZE_MAX - n
  THEN [a EXCEPT !.total = a.total + n]
  ELSE [a EXCEPT !.total = SIZE_MAX, !.ovf = TRUE]

\* a free path that forgets the debit
rend_cache_entry_free_NoDebit(a, e) == a

\* rend_cache_entry_free: the debit it makes
rend_cache_entry_free(a, e) ==
  rend_cache_decrement_allocation(a, rend_cache_entry_allocation(e))

\* rend_cache_entry_free on every entry of m at the keys ks, one after another
RECURSIVE FreeEntries(_, _, _)
FreeEntries(a, m, ks) ==
  IF ks = {} THEN a
  ELSE LET k == CHOOSE x \in ks : TRUE
       IN FreeEntries(rend_cache_entry_free(a, m[k]), m, ks \ {k})

\* the bytes the entries of m at the keys ks are charged, summed
RECURSIVE BytesOf(_, _)
BytesOf(m, ks) ==
  IF ks = {} THEN 0
  ELSE LET k == CHOOSE x \in ks : TRUE
       IN rend_cache_entry_allocation(m[k]) + BytesOf(m, ks \ {k})

----------------------------------------------------------------------------
(* Freshness and replacement tests of the two store paths *)

\* the age test with the bound itself counted as too old
TooOld_OrEqual(timestamp, t) ==
  timestamp <= t - REND_CACHE_MAX_AGE - REND_CACHE_MAX_SKEW

\* "Is descriptor too old?"
TooOld(timestamp, t) == timestamp < t - REND_CACHE_MAX_AGE - REND_CACHE_MAX_SKEW

\* the skew test with the bound itself counted as too far in the future
TooFarInFuture_OrEqual(timestamp, t) == timestamp >= t + REND_CACHE_MAX_SKEW

\* "Is descriptor too far in the future?"
TooFarInFuture(timestamp, t) == timestamp > t + REND_CACHE_MAX_SKEW

\* the client test with the directory's strict comparison
ClientHaveNewEnough_Strict(e, parsed) == e.parsed.timestamp > parsed.timestamp

\* client path: "Do we already have a newer descriptor?"
ClientHaveNewEnough(e, parsed) == e.parsed.timestamp >= parsed.timestamp

\* the directory test with the client's non-strict comparison
DirHaveNewer_OrEqual(e, parsed) == e.parsed.timestamp >= parsed.timestamp

\* directory path: "Do we already have a newer descriptor?"
DirHaveNewer(e, parsed) == e.parsed.timestamp > parsed.timestamp

\* directory path: "Do we already have this descriptor?"
DirHaveThis(desc, e) == strcmp_eq(desc, e.desc)

\* client path: the service id and the descriptor id must be the expected ones
WrongServiceId(onion_address, service_id) ==
  onion_address # <<>> /\ onion_address # service_id

\* a client path that never compares the descriptor id
WrongDescId_Unchecked(desc_id, want_desc_id) == FALSE

WrongDescId(desc_id, want_desc_id) == desc_id # want_desc_id

\* client path: the count rend_parse_introduction_points returns is refused
BadIntroPoints(n_intro_points) ==
  n_intro_points <= 0 \/ n_intro_points > MAX_INTRO_POINTS

----------------------------------------------------------------------------
(* The record of a call: what the caller passed, what the environment
   answered, and what the call gave back. *)

NoCall ==
  [op |-> "none", status |-> "", ret |-> 0, entry |-> NULL, out_desc |-> NULL,
   desc |-> <<>>, desc_id_base32 |-> <<>>, query |-> <<>>, version |-> 0,
   n_intro_points |-> 0, acting |-> FALSE, responsible |-> {}, stats |-> FALSE,
   t |-> 0, force |-> 0, number_parsed |-> 0, number_stored |-> 0,
   events |-> <<>>, log |-> <<>>, passes |-> <<>>, removed |-> <<>>,
   freed |-> {}, n |-> 0]

----------------------------------------------------------------------------
(* rend_cache_store_v2_desc_as_client *)

\* the client store with the age and skew tests made after the entry was
\* installed
rend_cache_store_v2_desc_as_client_StoreFirst(desc, desc_id_base32, onion_address, n_intro_points) ==
  LET want == base32_decode(desc_id_base32)
      p == rend_parse_v2_service_descriptor(desc)
      err == [cache |-> rend_cache, acct |-> Accountant,
              status |-> "RCS_BADDESC", entry |-> NULL]
  IN
  IF ~want.ok THEN err
  ELSE IF ~p.ok THEN err
  ELSE
    LET service_id == rend_get_service_id(p.parsed.pk)
        parsed == [p.parsed EXCEPT !.intro_nodes =
                     IF p.intro_size > 0
                     THEN [alloc |-> TRUE, n |-> n_intro_points]
                     ELSE [alloc |-> TRUE, n |-> 0]]
        key == <<"2">> \o service_id
        has == strmap_has_lc(rend_cache, key)
        old == strmap_get_lc(rend_cache, key)
    IN
    IF WrongServiceId(onion_address, service_id) THEN err
    ELSE IF WrongDescId(p.desc_id, want.digest) THEN err
    ELSE IF p.intro_size > 0 /\ BadIntroPoints(n_intro_points) THEN err
    ELSE IF has /\ ClientHaveNewEnough(old, parsed)
      THEN IF TooOld(parsed.timestamp, now) \/ TooFarInFuture(parsed.timestamp, now)
           THEN err
           ELSE [err EXCEPT !.status = "RCS_OKAY", !.entry = tor_strlower(key)]
    ELSE
      LET a1 == IF has
                THEN rend_cache_decrement_allocation(Accountant,
                                                     rend_cache_entry_allocation(old))
                ELSE Accountant
          e == [parsed |-> parsed,
                desc |-> tor_strndup(desc, p.encoded_size),
                len |-> p.encoded_size,
                last_served |-> IF has THEN old.last_served ELSE 0]
          stored == [cache |-> strmap_set_lc(rend_cache, key, e),
                     acct |-> rend_cache_increment_allocation(
                                a1, rend_cache_entry_allocation(e)),
                     status |-> "RCS_OKAY",
                     entry |-> tor_strlower(key)]
      IN IF TooOld(parsed.timestamp, now) \/ TooFarInFuture(parsed.timestamp, now)
         THEN [stored EXCEPT !.status = "RCS_BADDESC", !.entry = NULL]
         ELSE stored

\* n_intro_points is what rend_parse_introduction_points returns for the
\* blob, decrypted or not; it is read only when the blob is not empty.
rend_cache_store_v2_desc_as_client(desc, desc_id_base32, onion_address, n_intro_points) ==
  LET want == base32_decode(desc_id_base32)
      p == rend_parse_v2_service_descriptor(desc)
      err == [cache |-> rend_cache, acct |-> Accountant,
              status |-> "RCS_BADDESC", entry |-> NULL]
  IN
  IF ~want.ok THEN err
  ELSE IF ~p.ok THEN err
  ELSE
    LET service_id == rend_get_service_id(p.parsed.pk)
        parsed == [p.parsed EXCEPT !.intro_nodes =
                     IF p.intro_size > 0
                     THEN [alloc |-> TRUE, n |-> n_intro_points]
                     ELSE [alloc |-> TRUE, n |-> 0]]
        key == <<"2">> \o service_id
        has == strmap_has_lc(rend_cache, key)
        old == strmap_get_lc(rend_cache, key)
    IN
    IF WrongServiceId(onion_address, service_id) THEN err
    ELSE IF WrongDescId(p.desc_id, want.digest) THEN err
    ELSE IF p.intro_size > 0 /\ BadIntroPoints(n_intro_points) THEN err
    ELSE IF TooOld(parsed.timestamp, now) THEN err
    ELSE IF TooFarInFuture(parsed.timestamp, now) THEN err
    ELSE IF has /\ ClientHaveNewEnough(old, parsed)
      THEN [err EXCEPT !.status = "RCS_OKAY", !.entry = tor_strlower(key)]
    ELSE
      LET a1 == IF has
                THEN rend_cache_decrement_allocation(Accountant,
                                                     rend_cache_entry_allocation(old))
                ELSE Accountant
          e == [parsed |-> parsed,
                desc |-> tor_strndup(desc, p.encoded_size),
                len |-> p.encoded_size,
                last_served |-> IF has THEN old.last_served ELSE 0]
      IN [cache |-> strmap_set_lc(rend_cache, key, e),
          acct |-> rend_cache_increment_allocation(a1, rend_cache_entry_allocation(e)),
          status |-> "RCS_OKAY",
          entry |-> tor_strlower(key)]

----------------------------------------------------------------------------
(* rend_cache_store_v2_desc_as_dir *)

\* a directory store that back-dates last_served on every upload
DirLastServed_Refresh(has, old) == approx - 3600

\* directory path: a new entry is treated as served an hour ago, "to
\* prevent accidental flood attacks"; an entry replaced in place keeps its
\* last_served
DirLastServed(has, old) == IF has THEN old.last_served ELSE approx - 3600

\* what a log line shows for a slot that holds no entry
NoEntry ==
  [parsed |-> [pk |-> "none", timestamp |-> 0, intro_nodes |-> [alloc |-> FALSE, n |-> 0]],
   desc |-> <<>>, len |-> 0, last_served |-> 0]

\* The body of the while loop for the descriptor at the cursor, then the
\* rest of the buffer.  st carries the directory index, the accountant and
\* the counters; desc is the start of the whole buffer.  Every pass leaves a
\* log line: the id, which log_info branch was taken, and the slot's entry
\* before and after the pass.
RECURSIVE DirStoreLoop(_, _, _, _, _)
DirStoreLoop(desc, current_desc, st, responsible, stats) ==
  LET p == rend_parse_v2_service_descriptor(current_desc) IN
  IF ~p.ok THEN st
  ELSE
    LET has == p.desc_id \in DOMAIN st.dir
        old == st.dir[p.desc_id]
        why == IF p.desc_id \notin responsible THEN "not responsible"
               ELSE IF TooOld(p.parsed.timestamp, now) THEN "too old"
               ELSE IF TooFarInFuture(p.parsed.timestamp, now) THEN "too far in the future"
               ELSE IF has /\ DirHaveNewer(old, p.parsed) THEN "have newer"
               ELSE IF has /\ DirHaveThis(desc, old) THEN "have this"
               ELSE "stored"
        a1 == IF has
              THEN rend_cache_decrement_allocation(st.acct,
                                                   rend_cache_entry_allocation(old))
              ELSE st.acct
        e == [parsed |-> p.parsed,
              desc |-> tor_strndup(current_desc, p.encoded_size),
              len |-> p.encoded_size,
              last_served |-> DirLastServed(has, old)]
        st1 == [st EXCEPT
                  !.number_parsed = @ + 1,
                  !.log = Append(@, [desc_id |-> p.desc_id, what |-> why,
                                     had |-> has,
                                     before |-> IF has THEN old ELSE NoEntry,
                                     after |-> IF why = "stored" THEN e
                                               ELSE IF has THEN old ELSE NoEntry])]
        st2 == IF why # "stored" THEN st1
               ELSE [st1 EXCEPT
                       !.dir = MapSet(st.dir, p.desc_id, e),
                       !.acct = rend_cache_increment_allocation(
                                  a1, rend_cache_entry_allocation(e)),
                       !.events = IF stats THEN Append(@, e.parsed.pk) ELSE @,
                       !.number_stored = @ + 1]
    IN IF p.next_desc = <<>> THEN st2
       ELSE DirStoreLoop(desc, p.next_desc, st2, responsible, stats)

\* the directory store without the test of lines 298-303
rend_cache_store_v2_desc_as_dir_AnyNode(desc, acting, responsible, stats) ==
  LET st == DirStoreLoop(desc, desc,
                         [dir |-> rend_cache_v2_dir, acct |-> Accountant,
                          number_parsed |-> 0, number_stored |-> 0,
                          events |-> <<>>, log |-> <<>>, status |-> ""],
                         responsible, stats)
  IN [st EXCEPT !.status = IF st.number_parsed = 0 THEN "RCS_BADDESC"
                           ELSE "RCS_OKAY"]

\* the directory store answering from number_stored instead of number_parsed
rend_cache_store_v2_desc_as_dir_NoneStored(desc, acting, responsible, stats) ==
  LET st0 == [dir |-> rend_cache_v2_dir, acct |-> Accountant, number_parsed |-> 0,
              number_stored |-> 0, events |-> <<>>, log |-> <<>>, status |-> ""]
  IN IF ~acting THEN [st0 EXCEPT !.status = "RCS_NOTDIR"]
     ELSE LET st == DirStoreLoop(desc, desc, st0, responsible, stats)
          IN [st EXCEPT !.status = IF st.number_stored = 0 THEN "RCS_BADDESC"
                                   ELSE "RCS_OKAY"]

rend_cache_store_v2_desc_as_dir(desc, acting, responsible, stats) ==
  LET st0 == [dir |-> rend_cache_v2_dir, acct |-> Accountant, number_parsed |-> 0,
              number_stored |-> 0, events |-> <<>>, log |-> <<>>, status |-> ""]
  IN IF ~acting THEN [st0 EXCEPT !.status = "RCS_NOTDIR"]
     ELSE LET st == DirStoreLoop(desc, desc, st0, responsible, stats)
          IN [st EXCEPT !.status = IF st.number_parsed = 0 THEN "RCS_BADDESC"
                                   ELSE "RCS_OKAY"]

----------------------------------------------------------------------------
(* Lookups *)

EINVAL == 22
ENOENT == 2

\* the lookup with version 0 falling through to the default case
rend_cache_lookup_entry_V0Probes(query, version) ==
  LET key == <<"2">> \o query
      found == strmap_has_lc(rend_cache, key)
  IN
  IF ~rend_valid_service_id(query)
    THEN [ret |-> -EINVAL, entry |-> NULL, abort |-> FALSE, probed |-> FALSE]
  ELSE IF ~found
    THEN [ret |-> -ENOENT, entry |-> NULL, abort |-> FALSE, probed |-> TRUE]
  ELSE
    LET e == strmap_get_lc(rend_cache, key) IN
    [ret |-> 0, entry |-> tor_strlower(key),
     abort |-> ~e.parsed.intro_nodes.alloc, probed |-> TRUE]

\* the lookup with the key printed from version instead of default_version
rend_cache_lookup_entry_VersionKey(query, version) ==
  LET key == <<IF version = 2 THEN "2" ELSE "3">> \o query
      probed == version # 0
      found == probed /\ strmap_has_lc(rend_cache, key)
  IN
  IF ~rend_valid_service_id(query)
    THEN [ret |-> -EINVAL, entry |-> NULL, abort |-> FALSE, probed |-> FALSE]
  ELSE IF ~found
    THEN [ret |-> -ENOENT, entry |-> NULL, abort |-> FALSE, probed |-> probed]
  ELSE
    LET e == strmap_get_lc(rend_cache, key) IN
    [ret |-> 0, entry |-> tor_strlower(key),
     abort |-> ~e.parsed.intro_nodes.alloc, probed |-> probed]

\* rend_cache_lookup_entry.  entry is the out-parameter, which the caller
\* passes as NULL; abort is the tor_assert on the entry found.
rend_cache_lookup_entry(query, version) ==
  LET key == <<"2">> \o query
      probed == version # 0
      found == probed /\ strmap_has_lc(rend_cache, key)
  IN
  IF ~rend_valid_service_id(query)
    THEN [ret |-> -EINVAL, entry |-> NULL, abort |-> FALSE, probed |-> FALSE]
  ELSE IF ~found
    THEN [ret |-> -ENOENT, entry |-> NULL, abort |-> FALSE, probed |-> probed]
  ELSE
    LET e == strmap_get_lc(rend_cache, key) IN
    [ret |-> 0, entry |-> tor_strlower(key),
     abort |-> ~e.parsed.intro_nodes.alloc, probed |-> probed]

\* the directory lookup without the write of line 266
rend_cache_lookup_v2_desc_as_dir_NoTouch(desc_id) ==
  LET d == base32_decode(desc_id) IN
  IF ~d.ok
    THEN [ret |-> -1, out_desc |-> NULL, dir |-> rend_cache_v2_dir]
  ELSE IF d.digest \in DOMAIN rend_cache_v2_dir
    THEN [ret |-> 1, out_desc |-> rend_cache_v2_dir[d.digest].desc,
          dir |-> rend_cache_v2_dir]
  ELSE [ret |-> 0, out_desc |-> NULL, dir |-> rend_cache_v2_dir]

\* rend_cache_lookup_v2_desc_as_dir
rend_cache_lookup_v2_desc_as_dir(desc_id) ==
  LET d == base32_decode(desc_id) IN
  IF ~d.ok
    THEN [ret |-> -1, out_desc |-> NULL, dir |-> rend_cache_v2_dir]
  ELSE IF d.digest \in DOMAIN rend_cache_v2_dir
    THEN [ret |-> 1, out_desc |-> rend_cache_v2_dir[d.digest].desc,
          dir |-> [rend_cache_v2_dir EXCEPT ![d.digest].last_served = approx]]
  ELSE [ret |-> 0, out_desc |-> NULL, dir |-> rend_cache_v2_dir]

----------------------------------------------------------------------------
(* Sweeps and purge *)

\* rend_cache_clean: the test of its loop
CleanExpired(ent, cutoff) == ent.parsed.timestamp < cutoff

rend_cache_clean(t) ==
  LET cutoff == t - REND_CACHE_MAX_AGE - REND_CACHE_MAX_SKEW
      rm == {k \in DOMAIN rend_cache : CleanExpired(rend_cache[k], cutoff)}
  IN [cache |-> MapRemove(rend_cache, rm),
      acct |-> FreeEntries(Accountant, rend_cache, rm)]

\* the purge with strmap_free given no function to free the entries with
rend_cache_purge_NoFree ==
  [cache |-> EmptyMap, acct |-> Accountant]

\* rend_cache_purge
rend_cache_purge ==
  [cache |-> EmptyMap,
   acct |-> FreeEntries(Accountant, rend_cache, DOMAIN rend_cache)]

\* rend_cache_clean_v2_descs_as_dir: the test of its inner loop
DirEvict(key, ent, cutoff, last_served_cutoff, responsible) ==
  \/ ent.parsed.timestamp < cutoff
  \/ ent.last_served < last_served_cutoff
  \/ key \notin responsible

\* one pass of the do-while loop at last_served_cutoff, then the next ones
RECURSIVE CleanDirLoop(_, _, _, _, _, _)
CleanDirLoop(st, cutoff, last_served_cutoff, t, force_remove, responsible) ==
  LET rm == {k \in DOMAIN st.dir :
               DirEvict(k, st.dir[k], cutoff, last_served_cutoff, responsible)}
      st1 == [dir |-> MapRemove(st.dir, rm),
              acct |-> FreeEntries(st.acct, st.dir, rm),
              bytes_removed |-> st.bytes_removed + BytesOf(st.dir, rm),
              passes |-> Append(st.passes, last_served_cutoff),
              removed |-> Append(st.removed,
                                 st.bytes_removed + BytesOf(st.dir, rm))]
      advanced == last_served_cutoff + LAST_SERVED_CUTOFF_STEP
  IN IF advanced > t THEN st1
     ELSE IF st1.bytes_removed < force_remove
       THEN CleanDirLoop(st1, cutoff, advanced, t, force_remove, responsible)
     ELSE st1

\* the directory sweep with the break test of line 192 one step late
rend_cache_clean_v2_descs_as_dir_PastNow(t, force_remove, responsible) ==
  LET cutoff == t - REND_CACHE_MAX_AGE - REND_CACHE_MAX_SKEW
  IN CleanDirLoop([dir |-> rend_cache_v2_dir, acct |-> Accountant,
                   bytes_removed |-> 0, passes |-> <<>>, removed |-> <<>>],
                  cutoff, cutoff, t + LAST_SERVED_CUTOFF_STEP, force_remove,
                  responsible)

\* the directory sweep without the quota test of line 193
rend_cache_clean_v2_descs_as_dir_NoQuota(t, force_remove, responsible) ==
  LET cutoff == t - REND_CACHE_MAX_AGE - REND_CACHE_MAX_SKEW
  IN CleanDirLoop([dir |-> rend_cache_v2_dir, acct |-> Accountant,
                   bytes_removed |-> 0, passes |-> <<>>, removed |-> <<>>],
                  cutoff, cutoff, t, SIZE_MAX, responsible)

\* the directory sweep repeating while bytes_removed <= force_remove
rend_cache_clean_v2_descs_as_dir_QuotaInclusive(t, force_remove, responsible) ==
  LET cutoff == t - REND_CACHE_MAX_AGE - REND_CACHE_MAX_SKEW
  IN CleanDirLoop([dir |-> rend_cache_v2_dir, acct |-> Accountant,
                   bytes_removed |-> 0, passes |-> <<>>, removed |-> <<>>],
                  cutoff, cutoff, t,
                  IF force_remove = SIZE_MAX THEN SIZE_MAX ELSE force_remove + 1,
                  responsible)

rend_cache_clean_v2_descs_as_dir(t, force_remove, responsible) ==
  LET cutoff == t - REND_CACHE_MAX_AGE - REND_CACHE_MAX_SKEW
  IN CleanDirLoop([dir |-> rend_cache_v2_dir, acct |-> Accountant,
                   bytes_removed |-> 0, passes |-> <<>>, removed |-> <<>>],
                  cutoff, cutoff, t, force_remove, responsible)

----------------------------------------------------------------------------
(* Inputs *)

\* the first descriptor id is well-formed and held by "pk1", the third is
\* well-formed and nobody's, the last has characters outside the alphabet
DescIdStrings ==
  { Repeat("a", REND_DESC_ID_V2_LEN_BASE32),
    Repeat("b", REND_DESC_ID_V2_LEN_BASE32),
    Repeat("c", REND_DESC_ID_V2_LEN_BASE32),
    Repeat("!", REND_DESC_ID_V2_LEN_BASE32) }

OnionAddresses == {<<>>} \cup {rend_get_service_id(pk) : pk \in PublicKeys}

\* service ids in lower, upper and mixed case, one that no descriptor
\* derives, one with characters outside the alphabet, one too short
Queries ==
  { Repeat("a", REND_SERVICE_ID_LEN_BASE32),
    Repeat("A", REND_SERVICE_ID_LEN_BASE32),
    <<"A">> \o Repeat("a", REND_SERVICE_ID_LEN_BASE32 - 1),
    Repeat("b", REND_SERVICE_ID_LEN_BASE32),
    Repeat("c", REND_SERVICE_ID_LEN_BASE32),
    Repeat("!", REND_SERVICE_ID_LEN_BASE32),
    Repeat("a", REND_SERVICE_ID_LEN_BASE32 - 1) }

Versions == {0, 2, 3}

\* what rend_parse_introduction_points may return for a blob
IntroCounts == {-1, 0, MAX_INTRO_POINTS, MAX_INTRO_POINTS + 1}

\* the descriptor ids the node may be responsible for: all, or all but "pk2"'s
ResponsibleSets == {DescIds, DescIds \ {DescIdOf("pk2")}}

\* what the environment answers a directory store: whether the node acts as
\* a directory, which ids it is responsible for, whether statistics are on.
\* A node that is not a directory is asked nothing else.
DirEnvironments ==
  {[acting |-> FALSE, responsible |-> {}, stats |-> FALSE]}
  \cup [acting : {TRUE}, responsible : ResponsibleSets, stats : BOOLEAN]

\* the byte quotas handed to the directory sweep
ForceRemove == {0, 1, SizeofEntry + EncodedSize([body |-> 1]) + SizeofParsed + 1, SIZE_MAX}

\* what time(NULL) returns during a run
Clock == {StartTime, StartTime + 1}

\* the times handed to the sweeps: the clock, or one retention window later
SweepTimes == {now, now + REND_CACHE_MAX_AGE + REND_CACHE_MAX_SKEW}

----------------------------------------------------------------------------
(* The state machine.  The module runs on one thread and no operation
   re-enters another: an operation runs to completion, leaving the record
   of the call, and the caller takes the result before the next one. *)

Idle == call.op = "none"

SetAccountant(a) ==
  /\ rend_cache_total_allocation' = a.total
  /\ have_underflowed' = a.unf
  /\ have_overflowed' = a.ovf

\* rend_cache_init in a fresh process
Init ==
  /\ rend_cache = EmptyMap
  /\ rend_cache_v2_dir = EmptyMap
  /\ rend_cache_total_allocation = 0
  /\ have_underflowed = FALSE
  /\ have_overflowed = FALSE
  /\ now = StartTime
  /\ approx = StartTime
  /\ call = NoCall

StoreAsClient ==
  /\ Idle
  /\ \E desc \in {b \in Buffers : Len(b) <= 1}, desc_id_base32 \in DescIdStrings,
        onion_address \in OnionAddresses :
       \E n_intro_points \in IF desc # <<>> /\ IntroSize(Head(desc)) > 0
                             THEN IntroCounts ELSE {0} :
         LET r == rend_cache_store_v2_desc_as_client(desc, desc_id_base32,
                                                     onion_address, n_intro_points)
         IN /\ rend_cache' = r.cache
            /\ SetAccountant(r.acct)
            /\ call' = [NoCall EXCEPT !.op = "store_as_client", !.desc = desc,
                          !.desc_id_base32 = desc_id_base32, !.query = onion_address,
                          !.n_intro_points = n_intro_points,
                          !.status = r.status, !.entry = r.entry]
  /\ UNCHANGED <<rend_cache_v2_dir, now, approx>>

StoreAsDirectory ==
  /\ Idle
  /\ \E desc \in Buffers, env \in DirEnvironments :
       LET r == rend_cache_store_v2_desc_as_dir(desc, env.acting, env.responsible,
                                                env.stats)
       IN /\ rend_cache_v2_dir' = r.dir
          /\ SetAccountant(r.acct)
          /\ call' = [NoCall EXCEPT !.op = "store_as_directory", !.desc = desc,
                        !.acting = env.acting, !.responsible = env.responsible,
                        !.stats = env.stats, !.status = r.status,
                        !.number_parsed = r.number_parsed,
                        !.number_stored = r.number_stored,
                        !.events = r.events, !.log = r.log]
  /\ UNCHANGED <<rend_cache, now, approx>>

Lookup ==
  /\ Idle
  /\ \E query \in Queries, version \in Versions :
       LET r == rend_cache_lookup_entry(query, version)
       IN call' = [NoCall EXCEPT !.op = "lookup", !.query = query,
                     !.version = version, !.ret = r.ret, !.entry = r.entry]
  /\ UNCHANGED <<rend_cache, rend_cache_v2_dir, rend_cache_total_allocation,
                 have_underflowed, have_overflowed, now, approx>>

LookupByDescId ==
  /\ Idle
  /\ \E desc_id \in DescIdStrings :
       LET r == rend_cache_lookup_v2_desc_as_dir(desc_id)
       IN /\ rend_cache_v2_dir' = r.dir
          /\ call' = [NoCall EXCEPT !.op = "lookup_by_desc_id",
                        !.desc_id_base32 = desc_id, !.ret = r.ret,
                        !.out_desc = r.out_desc]
  /\ UNCHANGED <<rend_cache, rend_cache_total_allocation,
                 have_underflowed, have_overflowed, now, approx>>

Clean ==
  /\ Idle
  /\ \E t \in SweepTimes :
       LET r == rend_cache_clean(t)
       IN /\ rend_cache' = r.cache
          /\ SetAccountant(r.acct)
          /\ call' = [NoCall EXCEPT !.op = "clean", !.t = t,
                        !.freed = DOMAIN rend_cache \ DOMAIN r.cache]
  /\ UNCHANGED <<rend_cache_v2_dir, now, approx>>

CleanDirectory ==
  /\ Idle
  /\ \E t \in SweepTimes, force_remove \in ForceRemove,
        responsible \in ResponsibleSets :
       LET r == rend_cache_clean_v2_descs_as_dir(t, force_remove, responsible)
       IN /\ rend_cache_v2_dir' = r.dir
          /\ SetAccountant(r.acct)
          /\ call' = [NoCall EXCEPT !.op = "clean_directory", !.t = t,
                        !.force = force_remove, !.responsible = responsible,
                        !.passes = r.passes, !.removed = r.removed,
                        !.freed = DOMAIN rend_cache_v2_dir \ DOMAIN r.dir]
  /\ UNCHANGED <<rend_cache, now, approx>>

Purge ==
  /\ Idle
  /\ LET r == rend_cache_purge
     IN /\ rend_cache' = r.cache
        /\ SetAccountant(r.acct)
        /\ call' = [NoCall EXCEPT !.op = "purge",
                      !.freed = DOMAIN rend_cache \ DOMAIN r.cache]
  /\ UNCHANGED <<rend_cache_v2_dir, now, approx>>

\* the caller takes the result
Return ==
  /\ ~Idle
  /\ call' = NoCall
  /\ UNCHANGED <<rend_cache, rend_cache_v2_dir, rend_cache_total_allocation,
                 have_underflowed, have_overflowed, now, approx>>

\* a second passes on the wall clock
Tick ==
  /\ Idle
  /\ now + 1 \in Clock
  /\ now' = now + 1
  /\ UNCHANGED <<rend_cache, rend_cache_v2_dir, rend_cache_total_allocation,
                 have_underflowed, have_overflowed, approx, call>>

\* update_approx_time: the event loop refreshes the cached time
UpdateApproxTime ==
  /\ Idle
  /\ approx # now
  /\ approx' = now
  /\ UNCHANGED <<rend_cache, rend_cache_v2_dir, rend_cache_total_allocation,
                 have_underflowed, have_overflowed, now, call>>

Next ==
  \/ StoreAsClient
  \/ StoreAsDirectory
  \/ Lookup
  \/ LookupByDescId
  \/ Clean
  \/ CleanDirectory
  \/ Purge
  \/ Return
  \/ Tick
  \/ UpdateApproxTime

Spec == Init /\ [][Next]_vars

----------------------------------------------------------------------------
(* rend_cache_init called again.  The program calls it once, at start-up;
   nothing in the module keeps a caller from calling it on a cache in use.
   It installs two new maps over the old ones and assigns nothing else. *)

rend_cache_init ==
  [cache |-> EmptyMap, dir |-> EmptyMap, acct |-> Accountant]

\* The bytes of the entries a second init drops stay in the counter for
\* good; to keep the counter bounded the action is taken only while the
\* counter holds no bytes dropped by an earlier init.
Reinit ==
  /\ Idle
  /\ rend_cache_total_allocation =
       BytesOf(rend_cache, DOMAIN rend_cache)
       + BytesOf(rend_cache_v2_dir, DOMAIN rend_cache_v2_dir)
  /\ LET r == rend_cache_init
     IN /\ rend_cache' = r.cache
        /\ rend_cache_v2_dir' = r.dir
        /\ SetAccountant(r.acct)
        /\ call' = [NoCall EXCEPT !.op = "init",
                      !.freed = DOMAIN rend_cache \cup DOMAIN rend_cache_v2_dir]
  /\ UNCHANGED <<now, approx>>

NextInit ==
  \/ StoreAsClient
  \/ StoreAsDirectory
  \/ Return
  \/ Reinit

SpecInit == Init /\ [][NextInit]_vars

----------------------------------------------------------------------------
(* The accountant on its own: the three functions of lines 47-86 applied
   to amounts of bytes, small ones and ones near SIZE_MAX. *)

Amounts == {1, 2, SIZE_MAX - 1, SIZE_MAX}

\* the totals the accountant is driven over
NearEnds(total) ==
  total <= MaxDistance \/ total >= SIZE_MAX - MaxDistance

AccountantAdd ==
  /\ Idle
  /\ \E n \in Amounts :
       LET a == rend_cache_increment_allocation(Accountant, n)
       IN /\ NearEnds(a.total)
          /\ SetAccountant(a)
          /\ call' = [NoCall EXCEPT !.op = "add", !.n = n]
  /\ UNCHANGED <<rend_cache, rend_cache_v2_dir, now, approx>>

AccountantSub ==
  /\ Idle
  /\ \E n \in Amounts :
       LET a == rend_cache_decrement_allocation(Accountant, n)
       IN /\ NearEnds(a.total)
          /\ SetAccountant(a)
          /\ call' = [NoCall EXCEPT !.op = "sub", !.n = n]
  /\ UNCHANGED <<rend_cache, rend_cache_v2_dir, now, approx>>

AccountantGet ==
  /\ Idle
  /\ call' = [NoCall EXCEPT !.op = "get",
                !.ret = rend_cache_get_total_allocation(Accountant)]
  /\ UNCHANGED <<rend_cache, rend_cache_v2_dir, rend_cache_total_allocation,
                 have_underflowed, have_overflowed, now, approx>>

NextAccountant ==
  \/ AccountantAdd
  \/ AccountantSub
  \/ AccountantGet
  \/ Return

SpecAccountant == Init /\ [][NextAccountant]_vars

----------------------------------------------------------------------------
(* Properties *)

\* the charge of an entry as the specification states it
EntryCharge(e) == SizeofEntry + e.len + SizeofParsed

RECURSIVE ChargeSum(_, _)
ChargeSum(m, ks) ==
  IF ks = {} THEN 0
  ELSE LET k == CHOOSE x \in ks : TRUE
       IN EntryCharge(m[k]) + ChargeSum(m, ks \ {k})

ClientKey(pk) == <<"2">> \o rend_get_service_id(pk)

Max(S) == CHOOSE x \in S : \A y \in S : y <= x

\* C1: as long as the counter has not saturated, total_bytes is the sum of
\* sizeof(Entry) + len + sizeof(parsed) over the entries of both indexes,
\* so it is at least the charge of every entry, also after a replacement in
\* place that changed an entry's len.
C1_TotalIsSumOfCharges ==
  ~have_overflowed =>
    /\ rend_cache_total_allocation =
         ChargeSum(rend_cache, DOMAIN rend_cache)
         + ChargeSum(rend_cache_v2_dir, DOMAIN rend_cache_v2_dir)
    /\ \A k \in DOMAIN rend_cache :
         rend_cache_total_allocation >= EntryCharge(rend_cache[k])
    /\ \A k \in DOMAIN rend_cache_v2_dir :
         rend_cache_total_allocation >= EntryCharge(rend_cache_v2_dir[k])

\* a directory batch has just replaced an entry in place by one of another
\* length, while the client index holds an entry too
C1_Witness ==
  /\ call.op = "store_as_directory"
  /\ Len(call.log) = 2
  /\ call.log[1].what = "stored"
  /\ call.log[2].what = "stored"
  /\ call.log[2].had
  /\ call.log[2].before.len # call.log[2].after.len
  /\ DOMAIN rend_cache # {}

\* C2: store_as_client answers OK only when the descriptor's id is the
\* decoded expected id and, for a non-empty onion address, the service id
\* derived from its key is that address; otherwise it answers
\* BAD_DESCRIPTOR.  So every client entry sits under "2" + the service id
\* its own key derives.
C2_ClientIdentityChecked ==
  /\ call.op = "store_as_client" =>
       LET want == base32_decode(call.desc_id_base32)
           matches ==
             /\ want.ok
             /\ call.desc # <<>>
             /\ Head(call.desc).wellformed
             /\ Head(call.desc).desc_id = want.digest
             /\ call.query # <<>> =>
                  rend_get_service_id(Head(call.desc).pk) = call.query
       IN /\ call.status \in {"RCS_OKAY", "RCS_BADDESC"}
          /\ call.status = "RCS_OKAY" => matches
          /\ ~matches => call.status = "RCS_BADDESC"
          /\ call.status = "RCS_OKAY" => call.entry \in DOMAIN rend_cache
  /\ \A k \in DOMAIN rend_cache : k = ClientKey(rend_cache[k].parsed.pk)

\* a descriptor was accepted for a named onion address
C2_Witness ==
  /\ call.op = "store_as_client"
  /\ call.status = "RCS_OKAY"
  /\ call.query # <<>>
  /\ call.entry \in DOMAIN rend_cache

\* C3: an accepted client descriptor replaces what is stored for its service
\* iff there is no incumbent or the incumbent is strictly older; otherwise
\* the index and total_bytes are untouched and the incumbent is handed
\* back.  Across store_as_client calls a stored timestamp never decreases.
C3_ClientReplacementRule ==
  [][ call'.op = "store_as_client" =>
        /\ \A k \in DOMAIN rend_cache \cap DOMAIN rend_cache' :
             rend_cache'[k].parsed.timestamp >= rend_cache[k].parsed.timestamp
        /\ call'.status = "RCS_OKAY" =>
             LET d == Head(call'.desc)
                 key == ClientKey(d.pk)
             IN IF /\ key \in DOMAIN rend_cache
                   /\ rend_cache[key].parsed.timestamp >= d.timestamp
                THEN /\ rend_cache' = rend_cache
                     /\ rend_cache_total_allocation' = rend_cache_total_allocation
                     /\ call'.entry = key
                ELSE /\ key \in DOMAIN rend_cache'
                     /\ rend_cache'[key].desc = <<d>>
                     /\ rend_cache'[key].len = EncodedSize(d)
                     /\ rend_cache'[key].parsed.timestamp = d.timestamp
                     /\ call'.entry = key
                     /\ \A k \in DOMAIN rend_cache \ {key} :
                          k \in DOMAIN rend_cache' /\ rend_cache'[k] = rend_cache[k]
    ]_vars

\* an older descriptor was answered OK and the newer incumbent was kept
C3_Witness ==
  /\ call.op = "store_as_client"
  /\ call.status = "RCS_OKAY"
  /\ call.entry \in DOMAIN rend_cache
  /\ rend_cache[call.entry].parsed.timestamp > Head(call.desc).timestamp

\* the descriptor at position i of a directory buffer is one the node is
\* responsible for and inside the freshness window
DirEligible(c, i, t) ==
  /\ c.desc[i].desc_id \in c.responsible
  /\ c.desc[i].timestamp >= t - REND_CACHE_MAX_AGE - REND_CACHE_MAX_SKEW
  /\ c.desc[i].timestamp <= t + REND_CACHE_MAX_SKEW

\* the log lines of a directory store call describe the index: the first
\* line for an id shows the entry the call found, and the index ends up
\* holding what the last line for an id shows
DirLogMatchesIndex(c, dir_before, dir_after) ==
  /\ \A i \in 1..Len(c.log) :
       (\A j \in 1..(i - 1) : c.log[j].desc_id # c.log[i].desc_id) =>
         /\ c.log[i].had = (c.log[i].desc_id \in DOMAIN dir_before)
         /\ c.log[i].had => c.log[i].before = dir_before[c.log[i].desc_id]
  /\ \A i \in 1..Len(c.log) :
       (\E j \in 1..(i - 1) : c.log[j].desc_id = c.log[i].desc_id) =>
         LET j == Max({x \in 1..(i - 1) : c.log[x].desc_id = c.log[i].desc_id})
         IN /\ c.log[i].had = (c.log[j].had \/ c.log[j].what = "stored")
            /\ c.log[i].had => c.log[i].before = c.log[j].after
  /\ \A k \in DOMAIN dir_before \cup DOMAIN dir_after :
       LET idx == {i \in 1..Len(c.log) : c.log[i].desc_id = k}
       IN IF idx = {} \/ (\A i \in idx : c.log[i].what # "stored" /\ ~c.log[i].had)
          THEN (k \in DOMAIN dir_after) = (k \in DOMAIN dir_before)
               /\ (k \in DOMAIN dir_before => dir_after[k] = dir_before[k])
          ELSE k \in DOMAIN dir_after /\ dir_after[k] = c.log[Max(idx)].after

\* C4: for an eligible descriptor of a directory buffer, an incumbent with
\* a strictly greater timestamp is left as it is, and an incumbent that is
\* not newer and whose encoded bytes differ is replaced by the descriptor.
\* Across store_as_directory calls a stored timestamp never decreases.
C4_DirectoryReplacementRule ==
  [][ call'.op = "store_as_directory" =>
        /\ \A k \in DOMAIN rend_cache_v2_dir \cap DOMAIN rend_cache_v2_dir' :
             rend_cache_v2_dir'[k].parsed.timestamp
               >= rend_cache_v2_dir[k].parsed.timestamp
        /\ DirLogMatchesIndex(call', rend_cache_v2_dir, rend_cache_v2_dir')
        /\ \A i \in 1..Len(call'.log) :
             LET d == call'.desc[i]
                 l == call'.log[i]
             IN (DirEligible(call', i, now) /\ l.had) =>
                  /\ l.before.parsed.timestamp > d.timestamp => l.after = l.before
                  /\ (/\ l.before.parsed.timestamp <= d.timestamp
                      /\ l.before.desc # <<d>>) =>
                        /\ l.after.desc = <<d>>
                        /\ l.after.len = EncodedSize(d)
                        /\ l.after.parsed.timestamp = d.timestamp
                        /\ l.after.last_served = l.before.last_served
    ]_vars

\* a descriptor replaced an incumbent of the same timestamp and other bytes
C4_Witness ==
  /\ call.op = "store_as_directory"
  /\ \E i \in 1..Len(call.log) :
       /\ call.log[i].had
       /\ call.log[i].before.parsed.timestamp = call.desc[i].timestamp
       /\ call.log[i].before.desc # <<call.desc[i]>>
       /\ call.log[i].what = "stored"
       /\ rend_cache_v2_dir[call.log[i].desc_id].desc = <<call.desc[i]>>

\* C5: a descriptor of a directory buffer whose own encoded bytes are
\* already held at its id is skipped, whatever its position and whatever
\* follows it: not installed again, not counted, no statistics event.
C5_DuplicateSkipped ==
  call.op = "store_as_directory" =>
    /\ \A i \in 1..Len(call.log) :
         (call.log[i].had /\ call.log[i].before.desc = <<call.desc[i]>>) =>
           call.log[i].what # "stored"
    /\ (\A i \in 1..Len(call.log) :
          call.log[i].had /\ call.log[i].before.desc = <<call.desc[i]>>) =>
         (call.number_stored = 0 /\ call.events = <<>>)

\* a client store call whose descriptor parses and passes the identity and
\* introduction-point checks
ClientOtherwiseValid(c) ==
  /\ c.desc # <<>>
  /\ Head(c.desc).wellformed
  /\ base32_decode(c.desc_id_base32).ok
  /\ base32_decode(c.desc_id_base32).digest = Head(c.desc).desc_id
  /\ c.query # <<>> => c.query = rend_get_service_id(Head(c.desc).pk)
  /\ IntroSize(Head(c.desc)) > 0 => c.n_intro_points \in 1..MAX_INTRO_POINTS

\* the lower freshness bound at time t
AgeCutoff(t) == t - REND_CACHE_MAX_AGE - REND_CACHE_MAX_SKEW

\* C6 as stated: a descriptor whose timestamp is exactly
\* now - MAX_AGE - MAX_SKEW is rejected by both store paths:
\* store_as_client answers BAD_DESCRIPTOR and store_as_directory skips it.
C6_BoundaryRejected ==
  /\ (/\ call.op = "store_as_client"
      /\ call.desc # <<>>
      /\ Head(call.desc).wellformed
      /\ Head(call.desc).timestamp = AgeCutoff(now)) =>
       call.status = "RCS_BADDESC"
  /\ call.op = "store_as_directory" =>
       \A i \in 1..Len(call.log) :
         call.desc[i].timestamp = AgeCutoff(now) => call.log[i].what # "stored"

\* C6 amended: the age test is strict.  A descriptor with a timestamp below
\* now - MAX_AGE - MAX_SKEW is rejected by both store paths and changes
\* neither index; one whose timestamp is exactly now - MAX_AGE - MAX_SKEW
\* is not rejected for its age: store_as_client answers OK for it when it is
\* otherwise valid, and store_as_directory installs it when the node is
\* responsible for it and holds nothing at its id.
C6_LowerBoundary ==
  [][ /\ call'.op = "store_as_client" =>
           /\ (/\ call'.desc # <<>>
               /\ Head(call'.desc).wellformed
               /\ Head(call'.desc).timestamp < AgeCutoff(now)) =>
                /\ call'.status = "RCS_BADDESC"
                /\ rend_cache' = rend_cache
           /\ (/\ ClientOtherwiseValid(call')
               /\ Head(call'.desc).timestamp = AgeCutoff(now)) =>
                /\ call'.status = "RCS_OKAY"
                /\ call'.entry \in DOMAIN rend_cache'
                /\ rend_cache'[call'.entry].parsed.timestamp >= AgeCutoff(now)
                /\ call'.entry \notin DOMAIN rend_cache =>
                     rend_cache'[call'.entry].desc = call'.desc
      /\ call'.op = "store_as_directory" =>
           /\ \A i \in 1..Len(call'.log) :
                /\ call'.desc[i].timestamp < AgeCutoff(now) =>
                     /\ call'.log[i].what # "stored"
                     /\ call'.log[i].after = call'.log[i].before
                /\ (/\ call'.desc[i].timestamp = AgeCutoff(now)
                    /\ call'.desc[i].desc_id \in call'.responsible) =>
                     /\ call'.log[i].what # "too old"
                     /\ ~call'.log[i].had =>
                          /\ call'.log[i].what = "stored"
                          /\ call'.log[i].after.desc = <<call'.desc[i]>>
           /\ (\A i \in 1..Len(call'.log) :
                 call'.desc[i].timestamp < AgeCutoff(now)) =>
                rend_cache_v2_dir' = rend_cache_v2_dir
    ]_vars

\* a descriptor dated exactly on the lower bound was stored for a client
C6_Witness ==
  /\ call.op = "store_as_client"
  /\ call.status = "RCS_OKAY"
  /\ Head(call.desc).timestamp = AgeCutoff(now)
  /\ call.entry \in DOMAIN rend_cache
  /\ rend_cache[call.entry].desc = call.desc

\* C7: on both store paths an otherwise valid descriptor dated exactly
\* now + MAX_SKEW is accepted and one dated later is rejected, so no entry
\* of either index is dated later than now + MAX_SKEW.
C7_UpperBoundary ==
  /\ call.op = "store_as_client" =>
       /\ (/\ call.desc # <<>>
           /\ Head(call.desc).wellformed
           /\ Head(call.desc).timestamp > now + REND_CACHE_MAX_SKEW) =>
            call.status = "RCS_BADDESC"
       /\ (/\ ClientOtherwiseValid(call)
           /\ Head(call.desc).timestamp = now + REND_CACHE_MAX_SKEW) =>
            /\ call.status = "RCS_OKAY"
            /\ call.entry \in DOMAIN rend_cache
            /\ rend_cache[call.entry].desc = call.desc
  /\ call.op = "store_as_directory" =>
       \A i \in 1..Len(call.log) :
         /\ call.desc[i].timestamp > now + REND_CACHE_MAX_SKEW =>
              /\ call.log[i].what # "stored"
              /\ call.log[i].after = call.log[i].before
         /\ (/\ call.desc[i].timestamp = now + REND_CACHE_MAX_SKEW
             /\ call.desc[i].desc_id \in call.responsible) =>
              /\ call.log[i].what \in {"stored", "have this"}
              /\ call.log[i].after.parsed.timestamp = call.desc[i].timestamp
  /\ \A k \in DOMAIN rend_cache :
       rend_cache[k].parsed.timestamp <= now + REND_CACHE_MAX_SKEW
  /\ \A k \in DOMAIN rend_cache_v2_dir :
       rend_cache_v2_dir[k].parsed.timestamp <= now + REND_CACHE_MAX_SKEW

\* a directory batch installed a descriptor dated exactly now + MAX_SKEW
C7_Witness ==
  /\ call.op = "store_as_directory"
  /\ \E i \in 1..Len(call.log) :
       /\ call.desc[i].timestamp = now + REND_CACHE_MAX_SKEW
       /\ call.log[i].what = "stored"
       /\ rend_cache_v2_dir[call.log[i].desc_id].desc = <<call.desc[i]>>

\* C8: right after store_as_client answered OK for a descriptor deriving
\* service id s, lookup(s', v) for every letter-case variant s' of s and
\* every version v other than 0 finds the entry the store call handed back;
\* that entry has parsed and intro_nodes and a timestamp >= the
\* descriptor's.  A lookup call made while the index holds an entry for the
\* lower-cased query finds that entry.
C8_StoreThenLookup ==
  /\ (call.op = "store_as_client" /\ call.status = "RCS_OKAY") =>
       LET d == Head(call.desc)
           s == rend_get_service_id(d.pk)
       IN \A q \in Queries, v \in Versions \ {0} :
            tor_strlower(q) = s =>
              LET r == rend_cache_lookup_entry(q, v)
              IN /\ r.ret = 0
                 /\ ~r.abort
                 /\ r.entry = call.entry
                 /\ r.entry \in DOMAIN rend_cache
                 /\ rend_cache[r.entry].parsed.pk = d.pk
                 /\ rend_cache[r.entry].parsed.intro_nodes.alloc
                 /\ rend_cache[r.entry].parsed.timestamp >= d.timestamp
  /\ (/\ call.op = "lookup"
      /\ call.version # 0
      /\ Len(call.query) = REND_SERVICE_ID_LEN_BASE32
      /\ <<"2">> \o tor_strlower(call.query) \in DOMAIN rend_cache) =>
       /\ call.ret = 0
       /\ call.entry = <<"2">> \o tor_strlower(call.query)

\* a stored entry was found under a query that is not in lower case, for a
\* version other than 2
C8_Witness ==
  /\ call.op = "lookup"
  /\ call.ret = 0
  /\ call.version = 3
  /\ call.query # tor_strlower(call.query)
  /\ call.entry \in DOMAIN rend_cache

\* C9: a node that is not acting as a directory answers NOT_A_DIRECTORY to
\* store_as_directory for every buffer, parses nothing, leaves both indexes
\* (so every last_served) and total_bytes as they were and emits no
\* statistics event.
C9_NotADirectory ==
  [][ (call'.op = "store_as_directory" /\ ~call'.acting) =>
        /\ call'.status = "RCS_NOTDIR"
        /\ call'.number_parsed = 0
        /\ call'.number_stored = 0
        /\ call'.log = <<>>
        /\ call'.events = <<>>
        /\ rend_cache' = rend_cache
        /\ rend_cache_v2_dir' = rend_cache_v2_dir
        /\ rend_cache_total_allocation' = rend_cache_total_allocation
    ]_vars

\* a node that holds directory entries and no longer acts as a directory
\* was handed a buffer that parses
C9_Witness ==
  /\ call.op = "store_as_directory"
  /\ ~call.acting
  /\ call.status = "RCS_NOTDIR"
  /\ call.desc # <<>>
  /\ \A i \in 1..Len(call.desc) : call.desc[i].wellformed
  /\ DOMAIN rend_cache_v2_dir # {}
  /\ rend_cache_total_allocation > 0

\* how many descriptors the parser reads from the start of a buffer
ParseablePrefix(desc) ==
  Max({n \in 0..Len(desc) : \A i \in 1..n : desc[i].wellformed})

\* C10: a node acting as a directory answers BAD_DESCRIPTOR iff the first
\* descriptor of the buffer does not parse, and OK otherwise, however many
\* were skipped.  Every descriptor before the first unparseable one is
\* processed, whatever happened to those before it: an eligible one with no
\* incumbent is installed, and what was installed stays installed.
C10_BatchStatus ==
  (call.op = "store_as_directory" /\ call.acting) =>
    LET n == ParseablePrefix(call.desc) IN
    /\ call.status = IF n = 0 THEN "RCS_BADDESC" ELSE "RCS_OKAY"
    /\ call.number_parsed = n
    /\ Len(call.log) = n
    /\ call.number_stored =
         Cardinality({i \in 1..n : call.log[i].what = "stored"})
    /\ \A i \in 1..n :
         /\ call.log[i].desc_id = call.desc[i].desc_id
         /\ (DirEligible(call, i, now) /\ ~call.log[i].had) =>
              call.log[i].what = "stored"
         /\ call.log[i].what = "stored" =>
              /\ call.log[i].desc_id \in DOMAIN rend_cache_v2_dir
              /\ (\A j \in (i + 1)..n :
                    call.log[j].desc_id = call.log[i].desc_id =>
                      call.log[j].what # "stored") =>
                   rend_cache_v2_dir[call.log[i].desc_id].desc = <<call.desc[i]>>

\* every descriptor of a two-descriptor buffer was skipped and the call
\* answered OK
C10_Witness ==
  /\ call.op = "store_as_directory"
  /\ call.acting
  /\ call.status = "RCS_OKAY"
  /\ Len(call.log) = 2
  /\ call.number_stored = 0

\* C11 as stated: a client lookup with version 0 returns NOT_FOUND for
\* every query string, well-formed or malformed, and every cache content,
\* and never probes the client index.
C11_VersionZeroNotFound ==
  (call.op = "lookup" /\ call.version = 0) =>
    /\ call.ret = -ENOENT
    /\ call.entry = NULL
    /\ ~rend_cache_lookup_entry(call.query, 0).probed

\* C11 amended: the query is validated before the version is looked at.  A
\* client lookup with version 0 returns NOT_FOUND for every well-formed
\* query and INVALID_QUERY for every malformed one, whatever the cache
\* holds, hands back no entry, and never probes the client index.
C11_VersionZeroNeverProbes ==
  /\ call.op = "lookup" /\ call.version = 0 =>
       /\ call.ret = IF rend_valid_service_id(call.query) THEN -ENOENT
                     ELSE -EINVAL
       /\ call.entry = NULL
  /\ \A q \in Queries :
       LET r == rend_cache_lookup_entry(q, 0)
       IN /\ r.ret = IF rend_valid_service_id(q) THEN -ENOENT ELSE -EINVAL
          /\ r.entry = NULL
          /\ ~r.probed

\* a version 0 lookup of a service whose entry is in the index answered
\* NOT_FOUND
C11_Witness ==
  /\ call.op = "lookup"
  /\ call.version = 0
  /\ call.ret = -ENOENT
  /\ <<"2">> \o tor_strlower(call.query) \in DOMAIN rend_cache
  /\ rend_cache_lookup_entry(call.query, 2).ret = 0

\* C12: clean(now) removes from the client index and from the directory
\* index every entry whose timestamp is below now - MAX_AGE - MAX_SKEW, so
\* that after it returns neither index holds an entry older than the cutoff.
C12_CleanBothIndexes ==
  call.op = "clean" =>
    /\ \A k \in DOMAIN rend_cache :
         rend_cache[k].parsed.timestamp >= AgeCutoff(call.t)
    /\ \A k \in DOMAIN rend_cache_v2_dir :
         rend_cache_v2_dir[k].parsed.timestamp >= AgeCutoff(call.t)

\* the most passes a directory sweep can run
MaxPasses == (REND_CACHE_MAX_AGE + REND_CACHE_MAX_SKEW) \div LAST_SERVED_CUTOFF_STEP + 1

\* C13: clean_directory(now, force) ends after at most MaxPasses passes for
\* every force and every cache content.  Its passes run with served_cutoff
\* = cutoff, cutoff + 1800, ...; it goes on only while the bytes removed so
\* far are below force and the advanced served_cutoff is not past now, and
\* stops after the first pass where one of the two fails.  No pass has
\* served_cutoff > now, so a responsible entry with timestamp >= cutoff and
\* last_served >= now is kept.
C13_DirectorySweepStops ==
  [][ call'.op = "clean_directory" =>
        LET c == call'
            n == Len(c.passes)
            cutoff == AgeCutoff(c.t)
        IN /\ n \in 1..MaxPasses
           /\ Len(c.removed) = n
           /\ \A i \in 1..n :
                /\ c.passes[i] = cutoff + LAST_SERVED_CUTOFF_STEP * (i - 1)
                /\ c.passes[i] <= c.t
           /\ \A i \in 1..(n - 1) :
                /\ c.removed[i] < c.force
                /\ c.passes[i] + LAST_SERVED_CUTOFF_STEP <= c.t
           /\ \/ c.removed[n] >= c.force
              \/ c.passes[n] + LAST_SERVED_CUTOFF_STEP > c.t
           /\ c.removed[n] = ChargeSum(rend_cache_v2_dir, c.freed)
           /\ \A k \in DOMAIN rend_cache_v2_dir :
                (/\ k \in c.responsible
                 /\ rend_cache_v2_dir[k].parsed.timestamp >= cutoff
                 /\ rend_cache_v2_dir[k].last_served >= c.t) =>
                  /\ k \in DOMAIN rend_cache_v2_dir'
                  /\ rend_cache_v2_dir'[k] = rend_cache_v2_dir[k]
    ]_vars

\* a sweep with a quota above everything resident ran every pass up to
\* served_cutoff = now, freed an entry and kept one served at now
C13_Witness ==
  /\ call.op = "clean_directory"
  /\ call.force = SIZE_MAX
  /\ Len(call.passes) = MaxPasses
  /\ call.freed # {}
  /\ \E k \in DOMAIN rend_cache_v2_dir :
       rend_cache_v2_dir[k].last_served >= call.t

\* the values served_cutoff can take in a sweep at time t
SweepGrid(t) ==
  {T \in {AgeCutoff(t) + LAST_SERVED_CUTOFF_STEP * k : k \in 0..(MaxPasses - 1)} :
     T <= t}

\* the entries of dir a pass with served_cutoff = T removes: expired, not
\* the node's, or last served before T
SweepRemovable(dir, T, cutoff, responsible) ==
  {k \in DOMAIN dir : \/ dir[k].parsed.timestamp < cutoff
                      \/ dir[k].last_served < T
                      \/ k \notin responsible}

\* the entries of dir last served before T
ServedBefore(dir, T) == {k \in DOMAIN dir : dir[k].last_served < T}

\* C14 as stated, with "stale" read as last served before T and "fresh" as
\* responsible, unexpired and last served at or after T: for T = cutoff +
\* 1800*k <= now, if the entries that are expired, not the node's or stale
\* have total charge >= force, clean_directory(now, force) removes no fresh
\* entry; and when the stale entries sum to more than force, all of them
\* are removed and no fresh entry is removed.
C14_QuotaBoundedEviction ==
  [][ call'.op = "clean_directory" =>
        \A T \in SweepGrid(call'.t) :
          LET dir == rend_cache_v2_dir
              R == SweepRemovable(dir, T, AgeCutoff(call'.t), call'.responsible)
              kept == \A k \in DOMAIN dir \ R :
                        /\ k \in DOMAIN rend_cache_v2_dir'
                        /\ rend_cache_v2_dir'[k] = dir[k]
          IN /\ ChargeSum(dir, R) >= call'.force => kept
             /\ ChargeSum(dir, ServedBefore(dir, T)) > call'.force =>
                  /\ ServedBefore(dir, T) \cap DOMAIN rend_cache_v2_dir' = {}
                  /\ kept
    ]_vars

\* C14 amended: for T = cutoff + 1800*k <= now, if the entries that are
\* expired, not the node's or last served before T have total charge >=
\* force, clean_directory(now, force) removes no responsible entry with
\* timestamp >= cutoff and last_served >= T.  Those entries are all removed
\* when T = cutoff, or when the entries that are expired, not the node's or
\* last served before T - 1800 have total charge < force; otherwise the
\* sweep may stop before the pass that would remove them.
C14_QuotaKeepsFresh ==
  [][ call'.op = "clean_directory" =>
        \A T \in SweepGrid(call'.t) :
          LET dir == rend_cache_v2_dir
              cutoff == AgeCutoff(call'.t)
              R == SweepRemovable(dir, T, cutoff, call'.responsible)
              before == SweepRemovable(dir, T - LAST_SERVED_CUTOFF_STEP, cutoff,
                                       call'.responsible)
          IN /\ ChargeSum(dir, R) >= call'.force =>
                  \A k \in DOMAIN dir \ R :
                    /\ k \in DOMAIN rend_cache_v2_dir'
                    /\ rend_cache_v2_dir'[k] = dir[k]
             /\ (T = cutoff \/ ChargeSum(dir, before) < call'.force) =>
                  R \cap DOMAIN rend_cache_v2_dir' = {}
    ]_vars

\* a sweep with a quota ran more than one pass, stopped before the last
\* possible one with the quota met, and kept an entry
C14_Witness ==
  /\ call.op = "clean_directory"
  /\ call.force > 0
  /\ Len(call.passes) > 1
  /\ Len(call.passes) < MaxPasses
  /\ call.freed # {}
  /\ call.removed[Len(call.removed)] >= call.force
  /\ \E k \in DOMAIN rend_cache_v2_dir :
       /\ k \in call.responsible
       /\ rend_cache_v2_dir[k].last_served >= call.passes[Len(call.passes)]

\* C15: purge empties the client index and leaves the directory index as it
\* was; absent saturation total_bytes goes down by exactly the charges of
\* the purged client entries, and is then the sum of the charges of the
\* directory entries.
C15_PurgeClientOnly ==
  [][ call'.op = "purge" =>
        /\ rend_cache' = EmptyMap
        /\ rend_cache_v2_dir' = rend_cache_v2_dir
        /\ call'.freed = DOMAIN rend_cache
        /\ ~have_overflowed =>
             /\ rend_cache_total_allocation' =
                  rend_cache_total_allocation
                  - ChargeSum(rend_cache, DOMAIN rend_cache)
             /\ rend_cache_total_allocation' =
                  ChargeSum(rend_cache_v2_dir', DOMAIN rend_cache_v2_dir')
             /\ ~have_underflowed'
    ]_vars

\* a purge freed two client entries while the directory index held entries
C15_Witness ==
  /\ call.op = "purge"
  /\ Cardinality(call.freed) = Cardinality(PublicKeys)
  /\ rend_cache = EmptyMap
  /\ DOMAIN rend_cache_v2_dir # {}
  /\ rend_cache_total_allocation > 0

\* C16: lookup_by_desc_id answers Found (1) with the stored encoded bytes
\* iff the decoded id is a key of the directory index, Malformed (-1) iff
\* the id does not decode and WellFormedButMissing (0) otherwise.  On Found
\* it sets that entry's last_served to the current time, as approx_time()
\* gives it, and changes nothing else; otherwise it changes no state.  The
\* client lookup changes no state.
C16_LookupWritesLastServedOnly ==
  [][ /\ call'.op = "lookup_by_desc_id" =>
           LET d == base32_decode(call'.desc_id_base32)
               found == d.ok /\ d.digest \in DOMAIN rend_cache_v2_dir
           IN /\ call'.ret = IF found THEN 1 ELSE IF d.ok THEN 0 ELSE -1
              /\ found =>
                   /\ call'.out_desc = rend_cache_v2_dir[d.digest].desc
                   /\ DOMAIN rend_cache_v2_dir' = DOMAIN rend_cache_v2_dir
                   /\ rend_cache_v2_dir'[d.digest] =
                        [rend_cache_v2_dir[d.digest] EXCEPT !.last_served = approx]
                   /\ \A k \in DOMAIN rend_cache_v2_dir \ {d.digest} :
                        rend_cache_v2_dir'[k] = rend_cache_v2_dir[k]
              /\ ~found =>
                   /\ call'.out_desc = NULL
                   /\ rend_cache_v2_dir' = rend_cache_v2_dir
              /\ UNCHANGED <<rend_cache, rend_cache_total_allocation,
                             have_underflowed, have_overflowed, now, approx>>
      /\ call'.op = "lookup" =>
           UNCHANGED <<rend_cache, rend_cache_v2_dir, rend_cache_total_allocation,
                       have_underflowed, have_overflowed, now, approx>>
    ]_vars

\* a descriptor was served from an index of two entries: the one served
\* carries the current time and the other does not
C16_Witness ==
  /\ call.op = "lookup_by_desc_id"
  /\ call.ret = 1
  /\ LET d == base32_decode(call.desc_id_base32).digest
     IN /\ rend_cache_v2_dir[d].last_served = approx
        /\ call.out_desc = rend_cache_v2_dir[d].desc
        /\ \E k \in DOMAIN rend_cache_v2_dir \ {d} :
             rend_cache_v2_dir[k].last_served # approx

\* C17: right after any call to init, whatever the state before it, both
\* indexes are empty and total_bytes is 0.
C17_InitResetsAccountant ==
  call.op = "init" =>
    /\ rend_cache = EmptyMap
    /\ rend_cache_v2_dir = EmptyMap
    /\ rend_cache_total_allocation = 0

\* C18: clean_directory(now, 0) runs exactly one pass, with served_cutoff =
\* cutoff = now - MAX_AGE - MAX_SKEW: it removes exactly the directory
\* entries with timestamp < cutoff, or last_served < cutoff, or a key the
\* node is not responsible for, leaves the other directory entries and the
\* client index as they were, and debits total_bytes by the charges of the
\* entries removed.
C18_ZeroQuotaOnePass ==
  [][ (call'.op = "clean_directory" /\ call'.force = 0) =>
        LET cutoff == AgeCutoff(call'.t)
            R == {k \in DOMAIN rend_cache_v2_dir :
                    \/ rend_cache_v2_dir[k].parsed.timestamp < cutoff
                    \/ rend_cache_v2_dir[k].last_served < cutoff
                    \/ k \notin call'.responsible}
        IN /\ call'.passes = <<cutoff>>
           /\ call'.freed = R
           /\ DOMAIN rend_cache_v2_dir' = DOMAIN rend_cache_v2_dir \ R
           /\ \A k \in DOMAIN rend_cache_v2_dir' :
                rend_cache_v2_dir'[k] = rend_cache_v2_dir[k]
           /\ rend_cache' = rend_cache
           /\ ~have_overflowed =>
                rend_cache_total_allocation' =
                  rend_cache_total_allocation - ChargeSum(rend_cache_v2_dir, R)
    ]_vars

\* a sweep without quota removed an entry and kept another, which a later
\* pass would have removed
C18_Witness ==
  /\ call.op = "clean_directory"
  /\ call.force = 0
  /\ call.freed # {}
  /\ \E k \in DOMAIN rend_cache_v2_dir :
       /\ k \in call.responsible
       /\ rend_cache_v2_dir[k].last_served < call.t

\* C19: store_as_directory sets last_served to the current time, as
\* approx_time() gives it, minus 3600 exactly when it installs a descriptor
\* in an empty slot; when it replaces an entry in place the entry keeps its
\* last_served, and a descriptor it skips changes nothing.
C19_LastServedOnUpload ==
  call.op = "store_as_directory" =>
    \A i \in 1..Len(call.log) :
      LET l == call.log[i] IN
      /\ (l.what = "stored" /\ ~l.had) => l.after.last_served = approx - 3600
      /\ (l.what = "stored" /\ l.had) =>
           l.after.last_served = l.before.last_served
      /\ l.what # "stored" => l.after = l.before
      /\ (/\ \A j \in (i + 1)..Len(call.log) : call.log[j].desc_id # l.desc_id
          /\ l.had \/ l.what = "stored") =>
           rend_cache_v2_dir[l.desc_id].last_served = l.after.last_served

\* an entry that had been served was replaced in place by another
\* descriptor and kept the time it was served at
C19_Witness ==
  /\ call.op = "store_as_directory"
  /\ \E i \in 1..Len(call.log) :
       /\ call.log[i].what = "stored"
       /\ call.log[i].had
       /\ call.log[i].before.last_served # approx - 3600
       /\ call.log[i].after.desc # call.log[i].before.desc
       /\ rend_cache_v2_dir[call.log[i].desc_id].last_served
            = call.log[i].before.last_served

\* C20: the counter stays within [0, SIZE_MAX] under any sequence of add
\* and sub.  add(n) yields total + n when that does not exceed SIZE_MAX
\* and SIZE_MAX otherwise, never a wrapped value; sub(n) yields total - n
\* when n <= total and 0 otherwise; get returns the counter and leaves it.
C20_AccountantSaturates ==
  [][ /\ rend_cache_total_allocation' \in 0..SIZE_MAX
      /\ call'.op = "add" =>
           IF call'.n <= SIZE_MAX - rend_cache_total_allocation
           THEN rend_cache_total_allocation' - rend_cache_total_allocation = call'.n
           ELSE rend_cache_total_allocation' = SIZE_MAX
      /\ call'.op = "sub" =>
           IF call'.n <= rend_cache_total_allocation
           THEN rend_cache_total_allocation - rend_cache_total_allocation' = call'.n
           ELSE rend_cache_total_allocation' = 0
      /\ call'.op = "get" =>
           /\ call'.ret = rend_cache_total_allocation
           /\ rend_cache_total_allocation' = rend_cache_total_allocation
    ]_vars

\* an add of less than SIZE_MAX saturated the counter, after a sub had
\* emptied it before
C20_Witness ==
  /\ call.op = "add"
  /\ call.n < SIZE_MAX
  /\ rend_cache_total_allocation = SIZE_MAX
  /\ have_overflowed
  /\ have_underflowed

\* C21: store_as_client answers BAD_DESCRIPTOR exactly when the expected id
\* does not decode, the descriptor does not parse, its service id or
\* descriptor id is not the expected one, its introduction points count
\* <= 0 or > MAX_INTRO_POINTS, or its timestamp is stale or too far in the
\* future.  Then both indexes and total_bytes are as before the call and
\* the out-parameter is null.
C21_ClientFailureChangesNothing ==
  [][ call'.op = "store_as_client" =>
        LET rejected ==
              \/ ~ClientOtherwiseValid(call')
              \/ Head(call'.desc).timestamp < AgeCutoff(now)
              \/ Head(call'.desc).timestamp > now + REND_CACHE_MAX_SKEW
        IN /\ (call'.status = "RCS_BADDESC") = rejected
           /\ call'.status = "RCS_BADDESC" =>
                /\ call'.entry = NULL
                /\ rend_cache' = rend_cache
                /\ rend_cache_v2_dir' = rend_cache_v2_dir
                /\ rend_cache_total_allocation' = rend_cache_total_allocation
                /\ have_underflowed' = have_underflowed
                /\ have_overflowed' = have_overflowed
    ]_vars

\* a descriptor with the right identity, dated too far in the future, was
\* refused while the index held an older entry of the same service
C21_Witness ==
  /\ call.op = "store_as_client"
  /\ call.status = "RCS_BADDESC"
  /\ call.entry = NULL
  /\ ClientOtherwiseValid(call)
  /\ Head(call.desc).timestamp > now + REND_CACHE_MAX_SKEW
  /\ ClientKey(Head(call.desc).pk) \in DOMAIN rend_cache
  /\ DOMAIN rend_cache_v2_dir # {}

====
